---- MODULE Spec2Model ----
(***************************************************************************)
(* Model of the rust_parser crate of betedge: the decoder                  *)
(* (parser.rs), the batch builder (types.rs), the filter engine            *)
(* (filter.rs), the composition and the encoders of lib.rs; and of the     *)
(* row-wise transforms of the betedge-processing crate.                    *)
(*                                                                         *)
(* Specifications.                                                         *)
(*  - Spec: a call of a convenience function, stage by stage.              *)
(*  - SpecFilter: a direct call of filter_contracts_arrow_native.          *)
(*  - SpecThresholds: a direct call of compute_dynamic_thresholds.         *)
(*  - SpecEncode: a direct call of an encoder.                             *)
(*  - SpecBuilder: a TickBatchBuilder from new to finish.                  *)
(*  - SpecParallel: a call of add_implied_volatility or add_greeks.        *)
(*                                                                         *)
(* Number representation.                                                  *)
(*  - Dollar amounts (bid, ask, midpoint, strike_dollars) are whole        *)
(*    numbers of 1/20 dollar: 149.80 is 2996.  The feeds and strikes of    *)
(*    the model are multiples of 0.05 whose midpoints are again whole      *)
(*    numbers of units, so `as f32` and the f32 sums are value-preserving  *)
(*    on this domain.                                                      *)
(*  - base_pct is a whole number of tenths: 0.1 is 1, 1.0 is 10.           *)
(*  - A threshold is the real number (coef/10) * sqrt(rad), kept as the    *)
(*    record [coef, rad]; comparisons against it are decided exactly.      *)
(*    Of the f32 roundings only that of `dte as f32` is modelled (AsF32):  *)
(*    day counts from 2^24 on lose their low bits.                         *)
(*  - u32 values stay below 2^31; years therefore stay inside the range    *)
(*    NaiveDate supports.                                                  *)
(***************************************************************************)
EXTENDS Integers, Sequences, FiniteSets, TLC

VARIABLES
    pc,                 \* position of the call in progress
    option_json,        \* option document handed to the convenience function
    stock_json,         \* underlying document handed to the convenience function
    current_yyyymmdd,   \* as-of date as the YYYYMMDD integer
    current_date,       \* as-of date as a NaiveDate, once parsed
    max_dte,
    base_pct,
    batch,              \* RecordBatch produced by decode / handed to filter
    price_index,        \* HashMap<u32, f32> produced by decode / handed to filter
    masks,              \* dte_mask, moneyness_mask and final_mask of the filter call
    filter_result,      \* Result<RecordBatch, Error> of the filter call
    py_result,          \* PyResult of the convenience function
    format,             \* "ipc" or "parquet": which convenience function / encoder runs
    written,            \* buffer.len() once the writer has finished
    tick_builder,       \* a TickBatchBuilder under construction
    appended,           \* number of append_tick calls made on builder
    expirations,        \* argument of compute_dynamic_thresholds
    threshold_array,    \* Float32Array returned by compute_dynamic_thresholds
    sqrt_calls,         \* per row: the fast_sqrt call made for it, or None
    par_pc,             \* position of the row-wise transform
    transform,          \* "iv" (add_implied_volatility) or "greeks" (add_greeks)
    inputs,             \* rows handed to the batch kernel
    in_flight,          \* per worker: the position of the row it is computing, or 0
    claimed,            \* positions some worker has taken
    results,            \* tagged results, in the order the workers delivered them
    failed,             \* whether some row's computation returned an error
    column              \* output of the transform

pipeline_vars == <<pc, option_json, stock_json, current_yyyymmdd, current_date, max_dte,
                   base_pct, batch, price_index, masks, filter_result, py_result>>
encode_vars == <<format, written>>
builder_vars == <<tick_builder, appended>>
threshold_vars == <<expirations, threshold_array, sqrt_calls>>
par_vars == <<par_pc, transform, inputs, in_flight, claimed, results, failed, column>>

vars == <<pipeline_vars, encode_vars, builder_vars, threshold_vars, par_vars>>

(***************************************************************************)
(* Bounds of the model.                                                    *)
(***************************************************************************)
MaxRows == 2            \* rows of a batch handed directly to filter
MaxEntries == 2         \* entries of an option document
MaxOptionTicks == 2     \* ticks of an option document, over all its entries
MaxStockTicks == 2      \* ticks of an underlying document
MaxAppends == 3         \* append_tick calls on one builder
MaxThresholdRows == 2   \* rows of an array handed to compute_dynamic_thresholds
MaxParRows == 3         \* rows of a frame handed to a row-wise transform
MaxWorkers == 2         \* threads of the rayon pool

(***************************************************************************)
(* Generic helpers.                                                        *)
(***************************************************************************)
Min(S) == CHOOSE x \in S : \A y \in S : x <= y
Abs(x) == IF x < 0 THEN -x ELSE x
Pending == [kind |-> "Pending"]
None == [kind |-> "None"]
Ok(v) == [kind |-> "Ok", value |-> v]
Err(msg) == [kind |-> "Err", error |-> msg]
Panic(msg) == [kind |-> "Panic", message |-> msg]

RECURSIVE SeqsUpTo(_, _)
SeqsUpTo(S, n) ==
    IF n = 0 THEN {<<>>}
    ELSE LET shorter == SeqsUpTo(S, n - 1)
         IN shorter \cup {Append(s, x) : s \in {t \in shorter : Len(t) = n - 1}, x \in S}

(***************************************************************************)
(* chrono::NaiveDate (proleptic Gregorian calendar).                       *)
(***************************************************************************)
IsLeapYear(y) == (y % 4 = 0 /\ y % 100 # 0) \/ y % 400 = 0

DaysInMonth(y, m) ==
    IF m \in {4, 6, 9, 11} THEN 30
    ELSE IF m = 2 THEN (IF IsLeapYear(y) THEN 29 ELSE 28)
    ELSE 31

\* NaiveDate::from_ymd_opt
from_ymd_opt(year, month, day) ==
    IF month >= 1 /\ month <= 12 /\ day >= 1 /\ day <= DaysInMonth(year, month)
    THEN [kind |-> "Date", year |-> year, month |-> month, day |-> day]
    ELSE None

RECURSIVE DaysBeforeMonth(_, _)
DaysBeforeMonth(y, m) ==
    IF m <= 1 THEN 0 ELSE DaysBeforeMonth(y, m - 1) + DaysInMonth(y, m - 1)

\* days since the day before 0001-01-01
num_days_from_ce(d) ==
    LET y == d.year - 1
    IN 365 * y + (y \div 4) - (y \div 100) + (y \div 400)
       + DaysBeforeMonth(d.year, d.month) + d.day

\* (a - b).num_days()
num_days(a, b) == num_days_from_ce(a) - num_days_from_ce(b)

(***************************************************************************)
(* types.rs: the 14-column schema and RecordBatch.                         *)
(* A RecordBatch is [schema, columns, num_rows]; columns[i] is the array   *)
(* of schema[i].  Arrow keeps every column as long as num_rows.            *)
(***************************************************************************)
Field(name, data_type) == [name |-> name, data_type |-> data_type]

create_tick_schema ==
    << Field("ms_of_day", "UInt32"),
       Field("bid_size", "UInt16"),
       Field("bid_exchange", "UInt8"),
       Field("bid_price", "Float32"),
       Field("bid_condition", "UInt8"),
       Field("ask_size", "UInt16"),
       Field("ask_exchange", "UInt8"),
       Field("ask_price", "Float32"),
       Field("ask_condition", "UInt8"),
       Field("date", "UInt32"),
       Field("root", "Utf8"),
       Field("expiration", "UInt32"),
       Field("strike", "UInt32"),
       Field("right", "Utf8") >>

RecordBatch(schema, columns, num_rows) ==
    [schema |-> schema, columns |-> columns, num_rows |-> num_rows]

\* RecordBatch::column_by_name: index of the first field of that name, 0 for None
column_by_name(b, name) ==
    LET hits == {i \in 1..Len(b.schema) : b.schema[i].name = name}
    IN IF hits = {} THEN 0 ELSE Min(hits)

\* row i of a batch, as the tuple of its cells in column order
RowAt(b, i) == [c \in 1..Len(b.columns) |-> b.columns[c][i]]

(***************************************************************************)
(* filter.rs: square roots, date decoding, the two masks.                  *)
(***************************************************************************)
LutSize == 366

\* (x as f32).sqrt(), kept symbolically
\* distance between neighbouring f32 values at the whole number x >= 0
RECURSIVE F32Step(_)
F32Step(x) == IF x < 2^24 THEN 1 ELSE 2 * F32Step(x \div 2)

\* `x as f32` for a whole number: the nearest value with 24 significant bits,
\* ties to the even one
AsF32(x) ==
    LET step == F32Step(x)
        low == (x \div step) * step
        rest == x - low
    IN IF 2 * rest < step THEN low
       ELSE IF 2 * rest > step THEN low + step
       ELSE IF (low \div step) % 2 = 0 THEN low ELSE low + step

\* (x as f32).sqrt(), kept symbolically
Sqrt(x) == [rad |-> AsF32(x)]

SQRT_LUT == [i \in 0..(LutSize - 1) |-> Sqrt(i)]

IsPanic(v) == "kind" \in DOMAIN v /\ v.kind = "Panic"

\* fast_sqrt that also takes dte = 366 from the table
fast_sqrt_call_OffByOne(dte) ==
    IF dte <= LutSize
    THEN [kind |-> "Call", dte |-> dte, path |-> "table", index |-> dte,
          value |-> IF dte \in DOMAIN SQRT_LUT THEN SQRT_LUT[dte]
                    ELSE Panic("index out of bounds")]
    ELSE [kind |-> "Call", dte |-> dte, path |-> "direct", index |-> 0,
          value |-> Sqrt(dte)]

\* fast_sqrt, with the path it took: SQRT_LUT[dte as usize] or the direct
\* computation.  An index beyond the table, which is what `dte as usize` is
\* for a negative dte, panics.
fast_sqrt_call(dte) ==
    IF dte < LutSize
    THEN [kind |-> "Call", dte |-> dte, path |-> "table", index |-> dte,
          value |-> IF dte \in DOMAIN SQRT_LUT THEN SQRT_LUT[dte]
                    ELSE Panic("index out of bounds")]
    ELSE [kind |-> "Call", dte |-> dte, path |-> "direct", index |-> 0,
          value |-> Sqrt(dte)]

fast_sqrt(dte) == fast_sqrt_call(dte).value

\* x.wrapping_sub(1) < k on u32: 0 wraps to 2^32 - 1, which is below no k used
WrappingSubLess(x, k) == IF x = 0 THEN FALSE ELSE x - 1 < k

parse_yyyymmdd_branchless(date) ==
    LET year == date \div 10000
        month == (date % 10000) \div 100
        day == date % 100
        month_valid == WrappingSubLess(month, 12)
        day_valid == WrappingSubLess(day, 31)
    IN IF month_valid /\ day_valid THEN from_ymd_opt(year, month, day) ELSE None

\* DteMaskValue with the same-day expiration let through (dte >= 0)
DteMaskValue_SameDayPasses(expiration, cur, mdte) ==
    LET exp_date == parse_yyyymmdd_branchless(expiration)
    IN IF exp_date.kind # "None"
       THEN LET dte == num_days(exp_date, cur) IN dte >= 0 /\ dte <= mdte
       ELSE FALSE

\* body of the loop of filter_dte_arrow
DteMaskValue(expiration, cur, mdte) ==
    LET exp_date == parse_yyyymmdd_branchless(expiration)
    IN IF exp_date.kind # "None"
       THEN LET dte == num_days(exp_date, cur) IN dte > 0 /\ dte <= mdte
       ELSE FALSE

filter_dte_arrow(expiration_array, cur, mdte) ==
    [i \in 1..Len(expiration_array) |-> DteMaskValue(expiration_array[i], cur, mdte)]

ZeroThreshold == [coef |-> 0, rad |-> 0]

\* body of the loop of compute_dynamic_thresholds
\* base_pct as f32 * fast_sqrt(dte)
Times(bpct, root) == IF IsPanic(root) THEN root ELSE [coef |-> bpct, rad |-> root.rad]

\* ThresholdRow without the test dte > 0
ThresholdRow_NoPositiveCheck(expiration, cur, bpct) ==
    LET exp_date == parse_yyyymmdd_branchless(expiration)
    IN IF exp_date.kind # "None"
       THEN LET call == fast_sqrt_call(num_days(exp_date, cur))
            IN [threshold |-> Times(bpct, call.value), call |-> call]
       ELSE [threshold |-> ZeroThreshold, call |-> None]

\* one turn of the loop of compute_dynamic_thresholds: the value appended and
\* the fast_sqrt call made for it, None when there is none
ThresholdRow(expiration, cur, bpct) ==
    LET exp_date == parse_yyyymmdd_branchless(expiration)
    IN IF exp_date.kind # "None"
       THEN LET dte == num_days(exp_date, cur)
            IN IF dte > 0
               THEN LET call == fast_sqrt_call(dte)
                    IN [threshold |-> Times(bpct, call.value), call |-> call]
               ELSE [threshold |-> ZeroThreshold, call |-> None]
       ELSE [threshold |-> ZeroThreshold, call |-> None]

ThresholdValue(expiration, cur, bpct) == ThresholdRow(expiration, cur, bpct).threshold

\* the fast_sqrt calls of compute_dynamic_thresholds, row by row
SqrtCalls(expiration_array, cur, bpct) ==
    [i \in 1..Len(expiration_array) |-> ThresholdRow(expiration_array[i], cur, bpct).call]

\* whether some turn of the loop panics, which ends the call
ThresholdsPanic(expiration_array, cur, bpct) ==
    \E i \in 1..Len(expiration_array) :
        IsPanic(ThresholdValue(expiration_array[i], cur, bpct))

compute_dynamic_thresholds(expiration_array, cur, bpct) ==
    IF ThresholdsPanic(expiration_array, cur, bpct) THEN Panic("index out of bounds")
    ELSE [i \in 1..Len(expiration_array) |->
             ThresholdValue(expiration_array[i], cur, bpct)]

\* diff <= underlying * threshold over the reals, for diff >= 0:
\* 10 * diff <= (underlying * coef) * sqrt(rad).  A negative radicand is NaN.
WithinThreshold(diff, underlying, threshold) ==
    LET x == 10 * diff
        y == underlying * threshold.coef
        d == threshold.rad
    IN IF d < 0 THEN FALSE
       ELSE IF d = 0 \/ y = 0 THEN x <= 0
       ELSE IF y < 0 THEN FALSE
       ELSE LET q == (x * x) \div (y * y)
                r == (x * x) % (y * y)
            IN q < d \/ (q = d /\ r = 0)

\* (strike_minor as f64 * 0.0001) as f32, in units of 1/20 dollar
StrikeDollars(strike_minor) == strike_minor \div 500

\* MoneynessValue without the skip of underlying rows
MoneynessValue_NoUnderlyingSkip(strike, threshold, ms_of_day, right, idx) ==
    IF ms_of_day \notin DOMAIN idx THEN FALSE
    ELSE LET underlying == idx[ms_of_day]
             diff == Abs(strike - underlying)
         IN WithinThreshold(diff, underlying, threshold)

\* MoneynessValue falling back to the price at the nearest time-of-day
MoneynessValue_NearestTime(strike, threshold, ms_of_day, right, idx) ==
    IF right = "U" THEN FALSE
    ELSE LET nearest == CHOOSE k \in DOMAIN idx :
                            \A j \in DOMAIN idx : Abs(k - ms_of_day) <= Abs(j - ms_of_day)
             underlying == idx[nearest]
             diff == Abs(strike - underlying)
         IN WithinThreshold(diff, underlying, threshold)

\* body of the moneyness loop of filter_contracts_arrow_native
MoneynessValue(strike, threshold, ms_of_day, right, idx) ==
    IF right = "U" THEN FALSE
    ELSE IF ms_of_day \notin DOMAIN idx THEN FALSE
    ELSE LET underlying == idx[ms_of_day]
             diff == Abs(strike - underlying)
         IN WithinThreshold(diff, underlying, threshold)

\* and computing the elementwise OR
and_AsOr(left, right) == [i \in 1..Len(left) |-> left[i] \/ right[i]]

\* arrow::compute::and
and(left, right) == [i \in 1..Len(left) |-> left[i] /\ right[i]]

RECURSIVE FilterArray(_, _)
FilterArray(array, mask) ==
    IF Len(array) = 0 THEN <<>>
    ELSE LET rest == FilterArray(Tail(array), Tail(mask))
         IN IF Head(mask) THEN <<Head(array)>> \o rest ELSE rest

\* filter_record_batch that keeps the row count of its input
filter_record_batch_StaleRowCount(b, mask) ==
    RecordBatch(b.schema,
                [c \in 1..Len(b.columns) |-> FilterArray(b.columns[c], mask)],
                b.num_rows)

\* arrow::compute::filter_record_batch
filter_record_batch(b, mask) ==
    RecordBatch(b.schema,
                [c \in 1..Len(b.columns) |-> FilterArray(b.columns[c], mask)],
                Cardinality({i \in 1..Len(mask) : mask[i]}))

(***************************************************************************)
(* types.rs: ticks, contracts and the batch builder.                       *)
(* A JsonTick / JsonStockTick is the tuple of its 10 positional fields.    *)
(***************************************************************************)
\* trait TickData
tick_ms_of_day(t) == t[1]
tick_bid_size(t) == t[2]
tick_bid_exchange(t) == t[3]
tick_bid_price(t) == t[4]
tick_bid_condition(t) == t[5]
tick_ask_size(t) == t[6]
tick_ask_exchange(t) == t[7]
tick_ask_price(t) == t[8]
tick_ask_condition(t) == t[9]
tick_date(t) == t[10]

JsonContract(root, expiration, strike, right) ==
    [root |-> root, expiration |-> expiration, strike |-> strike, right |-> right]

JsonEntry(ticks, contract) == [ticks |-> ticks, contract |-> contract]

\* `as u16` and `as u8` of a u32
AsU16(x) == x % 65536
AsU8(x) == x % 256

\* TickBatchBuilder::new: 14 empty column builders (capacity only pre-sizes)
TickBatchBuilder_new ==
    [ms_of_day |-> <<>>, bid_size |-> <<>>, bid_exchange |-> <<>>, bid_price |-> <<>>,
     bid_condition |-> <<>>, ask_size |-> <<>>, ask_exchange |-> <<>>, ask_price |-> <<>>,
     ask_condition |-> <<>>, date |-> <<>>, root |-> <<>>, expiration |-> <<>>,
     strike |-> <<>>, right |-> <<>>]

\* append_tick that leaves the `right` builder out
append_tick_SkipsRight(self, tick, contract) ==
    [ms_of_day |-> Append(self.ms_of_day, tick_ms_of_day(tick)),
     bid_size |-> Append(self.bid_size, AsU16(tick_bid_size(tick))),
     bid_exchange |-> Append(self.bid_exchange, AsU8(tick_bid_exchange(tick))),
     bid_price |-> Append(self.bid_price, tick_bid_price(tick)),
     bid_condition |-> Append(self.bid_condition, AsU8(tick_bid_condition(tick))),
     ask_size |-> Append(self.ask_size, AsU16(tick_ask_size(tick))),
     ask_exchange |-> Append(self.ask_exchange, AsU8(tick_ask_exchange(tick))),
     ask_price |-> Append(self.ask_price, tick_ask_price(tick)),
     ask_condition |-> Append(self.ask_condition, AsU8(tick_ask_condition(tick))),
     date |-> Append(self.date, tick_date(tick)),
     root |-> Append(self.root, contract.root),
     expiration |-> Append(self.expiration, contract.expiration),
     strike |-> Append(self.strike, contract.strike),
     right |-> self.right]

\* append_tick whose casts stop at the largest value of the column
append_tick_Saturating(self, tick, contract) ==
    LET Sat(x, top) == IF x > top THEN top ELSE x
    IN [ms_of_day |-> Append(self.ms_of_day, tick_ms_of_day(tick)),
        bid_size |-> Append(self.bid_size, Sat(tick_bid_size(tick), 65535)),
        bid_exchange |-> Append(self.bid_exchange, Sat(tick_bid_exchange(tick), 255)),
        bid_price |-> Append(self.bid_price, tick_bid_price(tick)),
        bid_condition |-> Append(self.bid_condition, Sat(tick_bid_condition(tick), 255)),
        ask_size |-> Append(self.ask_size, Sat(tick_ask_size(tick), 65535)),
        ask_exchange |-> Append(self.ask_exchange, Sat(tick_ask_exchange(tick), 255)),
        ask_price |-> Append(self.ask_price, tick_ask_price(tick)),
        ask_condition |-> Append(self.ask_condition, Sat(tick_ask_condition(tick), 255)),
        date |-> Append(self.date, tick_date(tick)),
        root |-> Append(self.root, contract.root),
        expiration |-> Append(self.expiration, contract.expiration),
        strike |-> Append(self.strike, contract.strike),
        right |-> Append(self.right, contract.right)]

\* TickBatchBuilder::append_tick
append_tick(self, tick, contract) ==
    [ms_of_day |-> Append(self.ms_of_day, tick_ms_of_day(tick)),
     bid_size |-> Append(self.bid_size, AsU16(tick_bid_size(tick))),
     bid_exchange |-> Append(self.bid_exchange, AsU8(tick_bid_exchange(tick))),
     bid_price |-> Append(self.bid_price, tick_bid_price(tick)),
     bid_condition |-> Append(self.bid_condition, AsU8(tick_bid_condition(tick))),
     ask_size |-> Append(self.ask_size, AsU16(tick_ask_size(tick))),
     ask_exchange |-> Append(self.ask_exchange, AsU8(tick_ask_exchange(tick))),
     ask_price |-> Append(self.ask_price, tick_ask_price(tick)),
     ask_condition |-> Append(self.ask_condition, AsU8(tick_ask_condition(tick))),
     date |-> Append(self.date, tick_date(tick)),
     root |-> Append(self.root, contract.root),
     expiration |-> Append(self.expiration, contract.expiration),
     strike |-> Append(self.strike, contract.strike),
     right |-> Append(self.right, contract.right)]

\* the 14 column builders of a TickBatchBuilder, in schema order
Builders(self) ==
    << self.ms_of_day, self.bid_size, self.bid_exchange, self.bid_price,
       self.bid_condition, self.ask_size, self.ask_exchange, self.ask_price,
       self.ask_condition, self.date, self.root, self.expiration,
       self.strike, self.right >>

\* RecordBatch::try_new: the row count is the length of the first column, and
\* every other column must be as long
RecordBatch_try_new(schema, columns) ==
    IF \A c \in 1..Len(columns) : Len(columns[c]) = Len(columns[1])
    THEN Ok(RecordBatch(schema, columns, Len(columns[1])))
    ELSE Err("all columns in a record batch must have the same length")

\* TickBatchBuilder::finish
finish(self) ==
    LET r == RecordBatch_try_new(create_tick_schema, Builders(self))
    IN IF r.kind = "Ok" THEN r.value ELSE Panic("Failed to create RecordBatch")

(***************************************************************************)
(* parser.rs: decode.  A document is [wellformed, response]; response is   *)
(* what serde yields for a well-formed document.                           *)
(***************************************************************************)
RECURSIVE SumTicks(_)
SumTicks(entries) ==
    IF entries = <<>> THEN 0 ELSE Len(Head(entries).ticks) + SumTicks(Tail(entries))

\* Insert keeping the value already stored under the key
Insert_KeepFirst(idx, key, value) ==
    [k \in (DOMAIN idx) \cup {key} |-> IF k \in DOMAIN idx THEN idx[k] ELSE value]

\* HashMap::insert
Insert(idx, key, value) ==
    [k \in (DOMAIN idx) \cup {key} |-> IF k = key THEN value ELSE idx[k]]

EmptyIndex == [k \in {} |-> 0]

\* (bid as f32 + ask as f32) / 2.0
Midpoint(stock_tick) == (tick_bid_price(stock_tick) + tick_ask_price(stock_tick)) \div 2

\* the price-index loop of parse_combined_data
RECURSIVE BuildPriceIndex(_, _)
BuildPriceIndex(idx, stock_ticks) ==
    IF stock_ticks = <<>> THEN idx
    ELSE BuildPriceIndex(Insert(idx, tick_ms_of_day(Head(stock_ticks)),
                                Midpoint(Head(stock_ticks))),
                         Tail(stock_ticks))

RECURSIVE AppendTicks(_, _, _)
AppendTicks(builder, ticks, contract) ==
    IF ticks = <<>> THEN builder
    ELSE AppendTicks(append_tick(builder, Head(ticks), contract), Tail(ticks), contract)

\* the option loop of parse_combined_data
RECURSIVE AppendEntries(_, _)
AppendEntries(builder, entries) ==
    IF entries = <<>> THEN builder
    ELSE AppendEntries(AppendTicks(builder, Head(entries).ticks, Head(entries).contract),
                       Tail(entries))

underlying_contract == JsonContract("STOCK", 0, 0, "U")

\* AppendAll with the underlying pass first
AppendAll_StockFirst(builder, entries, stock_ticks) ==
    AppendEntries(AppendTicks(builder, stock_ticks, underlying_contract), entries)

\* the two append passes of parse_combined_data, in the order the code runs them
AppendAll(builder, entries, stock_ticks) ==
    AppendTicks(AppendEntries(builder, entries), stock_ticks, underlying_contract)

\* parse_combined_data reporting an empty input as an error
parse_combined_data_EmptyIsError(option_response, stock_response) ==
    IF SumTicks(option_response) + Len(stock_response) = 0
    THEN Err("no ticks")
    ELSE Ok([batch |-> finish(AppendAll(TickBatchBuilder_new, option_response,
                                        stock_response)),
             price_index |-> BuildPriceIndex(EmptyIndex, stock_response)])

parse_combined_data(option_response, stock_response) ==
    LET option_ticks == SumTicks(option_response)
        stock_ticks == Len(stock_response)
        total_ticks == option_ticks + stock_ticks
    IN IF total_ticks = 0
       THEN Ok([batch |-> finish(TickBatchBuilder_new), price_index |-> EmptyIndex])
       ELSE Ok([batch |-> finish(AppendAll(TickBatchBuilder_new, option_response,
                                           stock_response)),
                price_index |-> BuildPriceIndex(EmptyIndex, stock_response)])

Malformed == [wellformed |-> FALSE, response |-> <<>>]
Document(response) == [wellformed |-> TRUE, response |-> response]

\* serde_json::from_str: the error tells what is wrong with the text and where
\* (the malformed document of the model is the text "{"); it is built from the
\* text alone
serde_json_from_str(doc) ==
    IF doc.wellformed THEN Ok(doc.response)
    ELSE Err("EOF while parsing an object at line 1 column 1")

\* both `?` hand the serde error on unchanged
parse_jsons_to_combined_arrow(option_doc, stock_doc) ==
    LET option_response == serde_json_from_str(option_doc)
    IN IF option_response.kind = "Err" THEN option_response
       ELSE LET stock_response == serde_json_from_str(stock_doc)
            IN IF stock_response.kind = "Err" THEN stock_response
               ELSE parse_combined_data(option_response.value, stock_response.value)

(***************************************************************************)
(* filter.rs: filter_contracts_arrow_native.                               *)
(***************************************************************************)
\* ValidateInputs without the max_dte check
ValidateInputs_NoMaxDteCheck(idx, mdte, bpct) ==
    IF DOMAIN idx = {} THEN "Price index cannot be empty"
    ELSE IF bpct <= 0 \/ bpct > 10 THEN "Base percentage must be between 0 and 1"
    ELSE "ok"

\* ValidateInputs without the upper limit on base_pct
ValidateInputs_NoUpperLimit(idx, mdte, bpct) ==
    IF DOMAIN idx = {} THEN "Price index cannot be empty"
    ELSE IF mdte <= 0 THEN "Max DTE must be positive"
    ELSE IF bpct <= 0 THEN "Base percentage must be between 0 and 1"
    ELSE "ok"

\* ValidateInputs without the check on the price index
ValidateInputs_NoIndexCheck(idx, mdte, bpct) ==
    IF mdte <= 0 THEN "Max DTE must be positive"
    ELSE IF bpct <= 0 \/ bpct > 10 THEN "Base percentage must be between 0 and 1"
    ELSE "ok"

\* the argument checks that follow the zero-row return
ValidateInputs(idx, mdte, bpct) ==
    IF DOMAIN idx = {} THEN "Price index cannot be empty"
    ELSE IF mdte <= 0 THEN "Max DTE must be positive"
    ELSE IF bpct <= 0 \/ bpct > 10 THEN "Base percentage must be between 0 and 1"
    ELSE "ok"

\* column_by_name(..).ok_or(..)?.downcast_ref::<T>().ok_or(..)?
ExtractColumn(b, name, data_type) ==
    LET i == column_by_name(b, name)
    IN IF i = 0 THEN "Missing column"
       ELSE IF b.schema[i].data_type # data_type THEN "Invalid column type"
       ELSE "ok"

Column(b, name) == b.columns[column_by_name(b, name)]

\* extraction of the four arrays and the two length checks
ValidateColumns(b) ==
    IF ExtractColumn(b, "expiration", "UInt32") # "ok"
    THEN ExtractColumn(b, "expiration", "UInt32")
    ELSE IF ExtractColumn(b, "strike", "UInt32") # "ok"
    THEN ExtractColumn(b, "strike", "UInt32")
    ELSE IF ExtractColumn(b, "ms_of_day", "UInt32") # "ok"
    THEN ExtractColumn(b, "ms_of_day", "UInt32")
    ELSE IF ExtractColumn(b, "right", "Utf8") # "ok"
    THEN ExtractColumn(b, "right", "Utf8")
    ELSE IF \/ Len(Column(b, "expiration")) # Len(Column(b, "strike"))
            \/ Len(Column(b, "expiration")) # Len(Column(b, "ms_of_day"))
            \/ Len(Column(b, "expiration")) # Len(Column(b, "right"))
    THEN "Array lengths are mismatched"
    ELSE IF Len(Column(b, "expiration")) # b.num_rows
    THEN "Array length does not match batch row count"
    ELSE "ok"

\* the three masks, for a batch that passed ValidateColumns
ComputeMasks(b, cur, idx, mdte, bpct) ==
    LET expiration_array == Column(b, "expiration")
        strike_array == Column(b, "strike")
        ms_of_day_array == Column(b, "ms_of_day")
        right_array == Column(b, "right")
        strike_dollars == [i \in 1..Len(strike_array) |-> StrikeDollars(strike_array[i])]
        dte_mask == filter_dte_arrow(expiration_array, cur, mdte)
        thresholds == compute_dynamic_thresholds(expiration_array, cur, bpct)
        moneyness_mask ==
            [i \in 1..Len(strike_dollars) |->
                MoneynessValue(strike_dollars[i], thresholds[i], ms_of_day_array[i],
                               right_array[i], idx)]
    IN [kind |-> "Masks",
        dte_mask |-> dte_mask,
        moneyness_mask |-> moneyness_mask,
        final_mask |-> and(dte_mask, moneyness_mask)]

\* FilterNonEmpty that hands the batch back without applying the mask
FilterNonEmpty_MaskIgnored(b, cur, idx, mdte, bpct) ==
    IF ValidateInputs(idx, mdte, bpct) # "ok" THEN Err(ValidateInputs(idx, mdte, bpct))
    ELSE IF ValidateColumns(b) # "ok" THEN Err(ValidateColumns(b))
    ELSE Ok(b)

\* filter_contracts_arrow_native after the zero-row return
FilterNonEmpty(b, cur, idx, mdte, bpct) ==
    IF ValidateInputs(idx, mdte, bpct) # "ok" THEN Err(ValidateInputs(idx, mdte, bpct))
    ELSE IF ValidateColumns(b) # "ok" THEN Err(ValidateColumns(b))
    ELSE Ok(filter_record_batch(b, ComputeMasks(b, cur, idx, mdte, bpct).final_mask))

\* filter_contracts_arrow_native without the zero-row return
filter_contracts_arrow_native_NoShortCircuit(b, cur, idx, mdte, bpct) ==
    FilterNonEmpty(b, cur, idx, mdte, bpct)

filter_contracts_arrow_native(b, cur, idx, mdte, bpct) ==
    IF b.num_rows = 0 THEN Ok(b) ELSE FilterNonEmpty(b, cur, idx, mdte, bpct)

\* the masks the call computed, Pending when it returned before computing them
MasksOfCall(b, cur, idx, mdte, bpct) ==
    IF b.num_rows = 0 \/ filter_contracts_arrow_native(b, cur, idx, mdte, bpct).kind = "Err"
    THEN Pending
    ELSE ComputeMasks(b, cur, idx, mdte, bpct)

(***************************************************************************)
(* lib.rs: the convenience function, stage by stage.                       *)
(***************************************************************************)
\* the range check alone, without the calendar construction
parse_current_date_fast_RangeCheckOnly(date) ==
    LET year == date \div 10000
        month == (date % 10000) \div 100
        day == date % 100
    IN IF month = 0 \/ month > 12 \/ day = 0 \/ day > 31
       THEN Err("Invalid date format")
       ELSE Ok([kind |-> "Date", year |-> year, month |-> month, day |-> day])

parse_current_date_fast(date) ==
    LET year == date \div 10000
        month == (date % 10000) \div 100
        day == date % 100
    IN IF month = 0 \/ month > 12 \/ day = 0 \/ day > 31
       THEN Err("Invalid date format")
       ELSE IF from_ymd_opt(year, month, day).kind = "None"
            THEN Err("Invalid date")
            ELSE Ok(from_ymd_opt(year, month, day))

(***************************************************************************)
(* Input domains.  Prices are in 1/20 dollar, base_pct in tenths.          *)
(***************************************************************************)
\* option ticks of the crate's tests, and one at a time-of-day no quote has
OptionTickA == <<34200000, 10, 47, 2990, 50, 10, 47, 3000, 50, 20231117>>
OptionTickB == <<35100000, 13, 47, 2975, 50, 11, 47, 2985, 50, 20231117>>
OptionTickC == <<34260000, 15, 47, 2995, 50, 12, 47, 3005, 50, 20231117>>

\* underlying ticks: midpoints 149.80 and 149.00, and a second quote for the
\* first time-of-day (midpoint 150.30) whose size and codes exceed their columns
StockTickA == <<34200000, 100, 47, 2995, 50, 100, 47, 2997, 50, 20231117>>
StockTickB == <<35100000, 150, 47, 2979, 50, 120, 47, 2981, 50, 20231117>>
StockTickA2 == <<34200000, 65636, 303, 3005, 306, 100, 47, 3007, 50, 20231117>>

Call150 == JsonContract("AAPL", 20231117, 1500000, "C")
Call165 == JsonContract("AAPL", 20231117, 1650000, "C")

\* (tick, contract) pairs a batch handed to filter is built from
FilterRows ==
    { <<OptionTickA, Call150>>,
      <<OptionTickB, Call150>>,
      <<OptionTickC, Call150>>,
      <<OptionTickA, Call165>>,
      <<StockTickA, underlying_contract>>,
      <<OptionTickA, JsonContract("AAPL", 20231117, 1498000, "U")>>,
      <<OptionTickA, JsonContract("AAPL", 20231103, 1498000, "P")>>,
      <<OptionTickB, JsonContract("AAPL", 20231114, 1800000, "P")>>,
      <<OptionTickA, JsonContract("AAPL", 20231110, 1500000, "P")>>,
      <<OptionTickA, JsonContract("AAPL", 20240229, 1500000, "C")>>,
      <<OptionTickA, JsonContract("AAPL", 20230229, 1498000, "C")>>,
      <<OptionTickA, JsonContract("AAPL", 20231301, 1500000, "C")>>,
      <<OptionTickA, JsonContract("AAPL", 20231100, 1500000, "C")>>,
      <<OptionTickA, JsonContract("AAPL", 20231132, 1500000, "C")>>,
      <<OptionTickA, JsonContract("AAPL", 0, 1500000, "C")>> }

RECURSIVE AppendRows(_, _)
AppendRows(builder, rows) ==
    IF rows = <<>> THEN builder
    ELSE AppendRows(append_tick(builder, Head(rows)[1], Head(rows)[2]), Tail(rows))

BatchOf(rows) == finish(AppendRows(TickBatchBuilder_new, rows))

\* a batch without the column `name`
DropColumn(b, name) ==
    LET keep == {i \in 1..Len(b.schema) : b.schema[i].name # name}
        Nth(k) == CHOOSE i \in keep : Cardinality({j \in keep : j < i}) = k - 1
    IN RecordBatch([k \in 1..Cardinality(keep) |-> b.schema[Nth(k)]],
                   [k \in 1..Cardinality(keep) |-> b.columns[Nth(k)]],
                   b.num_rows)

\* a batch whose column `name` has another element type
RetypeColumn(b, name, data_type) ==
    RecordBatch([i \in 1..Len(b.schema) |->
                    IF b.schema[i].name = name THEN Field(name, data_type)
                    ELSE b.schema[i]],
                b.columns, b.num_rows)

RequiredColumns == {"expiration", "strike", "ms_of_day", "right"}

WellTypedBatches == {BatchOf(rows) : rows \in SeqsUpTo(FilterRows, MaxRows)}

MistypedBatches ==
    LET base == {BatchOf(<<>>), BatchOf(<<<<OptionTickA, Call150>>>>),
                 BatchOf(<< <<OptionTickA, Call150>>, <<OptionTickB, Call150>> >>)}
    IN {DropColumn(b, n) : b \in base, n \in RequiredColumns}
       \cup {RetypeColumn(b, n, "Int64") : b \in base, n \in RequiredColumns}

FilterPriceIndexes ==
    { EmptyIndex,
      (34200000 :> 2996),
      (34200000 :> 2996) @@ (35100000 :> 3000) }

FilterDates == {from_ymd_opt(2023, 11, 10), from_ymd_opt(2023, 10, 31)}
FilterMaxDte == {0, 7, 120}
FilterBasePct == {0, 1, 10, 11}

(***************************************************************************)
(* lib.rs: the encoders.  The writers are library code: what the model     *)
(* keeps of a payload is its format, the rows it holds and its length in   *)
(* bytes, and a writer never fails on a batch that matches its schema.     *)
(***************************************************************************)
IpcLimit == 100 * 1024 * 1024
ParquetLimit == 50 * 1024 * 1024

Bytes(fmt, b, len) == [format |-> fmt, num_rows |-> b.num_rows, len |-> len]

\* serialize_batch_to_ipc with the ceiling itself refused
serialize_batch_to_ipc_LimitInclusive(b, len) ==
    IF Len(b.schema) = 0 THEN Err("Cannot serialize batch with empty schema")
    ELSE IF len >= IpcLimit THEN Err("Serialized data exceeds size limit")
    ELSE Ok(Bytes("ipc", b, len))

\* serialize_batch_to_ipc; len is buffer.len() after writer.finish()
serialize_batch_to_ipc(b, len) ==
    IF Len(b.schema) = 0 THEN Err("Cannot serialize batch with empty schema")
    ELSE IF len > IpcLimit THEN Err("Serialized data exceeds size limit")
    ELSE Ok(Bytes("ipc", b, len))

\* serialize_batch_to_parquet that refuses a batch without rows
serialize_batch_to_parquet_RejectsEmpty(b, len) ==
    IF Len(b.schema) = 0 \/ b.num_rows = 0
    THEN Err("Cannot serialize batch with empty schema")
    ELSE IF len > ParquetLimit THEN Err("Serialized Parquet data exceeds size limit")
    ELSE Ok(Bytes("parquet", b, len))

\* serialize_batch_to_parquet; len is buffer.len() after writer.close()
serialize_batch_to_parquet(b, len) ==
    IF Len(b.schema) = 0 THEN Err("Cannot serialize batch with empty schema")
    ELSE IF len > ParquetLimit THEN Err("Serialized Parquet data exceeds size limit")
    ELSE Ok(Bytes("parquet", b, len))

\* serialize_empty_batch_to_ipc / serialize_empty_batch_to_parquet
empty_batch == finish(TickBatchBuilder_new)

Serialize(fmt, b, len) ==
    IF fmt = "ipc" THEN serialize_batch_to_ipc(b, len)
    ELSE serialize_batch_to_parquet(b, len)

\* length of a payload that holds the 14-field schema and no row; the writer
\* decides it, the model takes 64 bytes a field
EmptyPayloadBytes == 14 * 64

\* lengths the writer can leave in the buffer.  A payload without rows has one
\* length; the length of a payload with rows grows with the text of its root
\* and right cells, which nothing bounds, so it is any of these
WrittenLengths(b) ==
    IF Len(b.schema) = 0 THEN {0}
    ELSE IF b.num_rows = 0 THEN {EmptyPayloadBytes}
    ELSE {EmptyPayloadBytes + 64 * b.num_rows,
          ParquetLimit, ParquetLimit + 1, IpcLimit, IpcLimit + 1}

(***************************************************************************)
(* betedge-processing: the row-wise transforms.  A row is the number that  *)
(* stands for its input cells; the kernels are kept symbolically.  Row 0   *)
(* is a row the implied-volatility solver returns None for.                *)
(***************************************************************************)
\* the closure of calc_implied_volatility_batch, without the tag
implied_volatility(input) ==
    IF input = 0 THEN Err("Failed to calculate implied volatility")
    ELSE Ok([implied_volatility |-> <<"iv", input>>])

\* calculate_greeks
calculate_greeks(input) ==
    Ok([delta |-> <<"delta", input>>, gamma |-> <<"gamma", input>>,
        theta |-> <<"theta", input>>, vega |-> <<"vega", input>>,
        rho |-> <<"rho", input>>])

Kernel(kind, input) ==
    IF kind = "iv" THEN implied_volatility(input) ELSE calculate_greeks(input)

\* the closure under enumerate(): the row's result with the row's index
MapRow(kind, index, input) ==
    LET r == Kernel(kind, input)
    IN IF r.kind = "Err" THEN r ELSE Ok([values |-> r.value, index |-> index])

OutputColumns(kind) ==
    IF kind = "iv" THEN {"implied_volatility"}
    ELSE {"delta", "gamma", "theta", "vega", "rho"}

\* sort_unstable_by_key left out: the results stay as they were delivered
sort_unstable_by_key_AsDelivered(rs) == rs

\* results.sort_unstable_by_key(|r| r.index); the indices are distinct
sort_unstable_by_key(rs) ==
    [k \in 1..Len(rs) |->
        LET at == CHOOSE j \in 1..Len(rs) :
                      Cardinality({q \in 1..Len(rs) : rs[q].index < rs[j].index}) = k - 1
        IN rs[at]]

\* the columns built from the sorted results; with_column / hstack refuse a
\* column whose height is not the frame's
AttachColumns(kind, rows, rs) ==
    IF Len(rs) # Len(rows) THEN Err("lengths don't match")
    ELSE Ok([name \in OutputColumns(kind) |-> [k \in 1..Len(rs) |-> rs[k].values[name]]])

ParValues == {0, 1, 2}

\* ticks whose sizes and codes are the largest their columns hold, and one
\* past them (ask size 2^17 + 1, ask exchange 511)
TickAtLimit == <<34200001, 65535, 255, 2990, 255, 65535, 255, 3000, 255, 20231117>>
TickPastLimit == <<34200002, 65536, 256, 2990, 256, 131073, 511, 3000, 257, 20231117>>

\* ticks and contracts appended to a builder under construction
BuilderTicks == {OptionTickA, StockTickA2, TickAtLimit, TickPastLimit}
BuilderContracts == {Call150, underlying_contract}

(***************************************************************************)
(* Actions.                                                                *)
(***************************************************************************)
\* let current_date = parse_current_date_fast(current_yyyymmdd)?
ParseCurrentDate ==
    /\ pc = "parse_date"
    /\ LET r == parse_current_date_fast(current_yyyymmdd)
       IN IF r.kind = "Err"
          THEN /\ py_result' = r
               /\ pc' = "done"
               /\ UNCHANGED current_date
          ELSE /\ current_date' = r.value
               /\ pc' = "decode"
               /\ UNCHANGED py_result
    /\ UNCHANGED <<option_json, stock_json, current_yyyymmdd, max_dte, base_pct, batch,
                   price_index, masks, filter_result>>
    /\ UNCHANGED <<encode_vars, builder_vars, threshold_vars, par_vars>>

\* let (batch, price_index) = parse_jsons_to_combined_arrow(..).map_err(..)?
Decode ==
    /\ pc = "decode"
    /\ LET r == parse_jsons_to_combined_arrow(option_json, stock_json)
       IN IF r.kind = "Err"
          THEN /\ py_result' = Err(<<"JSON parsing failed: ", r.error>>)
               /\ pc' = "done"
               /\ UNCHANGED <<batch, price_index>>
          ELSE /\ batch' = r.value.batch
               /\ price_index' = r.value.price_index
               /\ pc' = IF r.value.batch.num_rows = 0 THEN "encode_empty" ELSE "filter"
               /\ UNCHANGED py_result
    /\ UNCHANGED <<option_json, stock_json, current_yyyymmdd, current_date, max_dte,
                   base_pct, masks, filter_result>>
    /\ UNCHANGED <<encode_vars, builder_vars, threshold_vars, par_vars>>

\* filter_contracts_arrow_native(batch, current_date, price_index, max_dte, base_pct)
Filter ==
    /\ pc = "filter"
    /\ filter_result' =
           filter_contracts_arrow_native(batch, current_date, price_index, max_dte, base_pct)
    /\ masks' = MasksOfCall(batch, current_date, price_index, max_dte, base_pct)
    /\ IF filter_result'.kind = "Err"
       THEN /\ py_result' = Err(<<"Filtering failed: ", filter_result'.error>>)
            /\ pc' = "done"
       ELSE /\ pc' = "encode"
            /\ UNCHANGED py_result
    /\ UNCHANGED <<option_json, stock_json, current_yyyymmdd, current_date, max_dte,
                   base_pct, batch, price_index>>
    /\ UNCHANGED <<encode_vars, builder_vars, threshold_vars, par_vars>>

(***************************************************************************)

\* compute_dynamic_thresholds(&expiration_array, current_date, base_pct)
ComputeThresholds ==
    /\ pc = "thresholds"
    /\ threshold_array' = compute_dynamic_thresholds(expirations, current_date, base_pct)
    /\ sqrt_calls' = SqrtCalls(expirations, current_date, base_pct)
    /\ pc' = IF ThresholdsPanic(expirations, current_date, base_pct)
             THEN "thresholds_panicked"
             ELSE "thresholds_done"
    /\ UNCHANGED <<option_json, stock_json, current_yyyymmdd, current_date, max_dte,
                   base_pct, batch, price_index, masks, filter_result, py_result>>
    /\ UNCHANGED <<expirations, encode_vars, builder_vars, par_vars>>

\* serialize_batch_to_ipc(&filtered_batch) / serialize_batch_to_parquet(..)
Encode ==
    /\ pc = "encode"
    /\ \E len \in WrittenLengths(filter_result.value) :
           /\ written' = len
           /\ py_result' = Serialize(format, filter_result.value, len)
    /\ pc' = "done"
    /\ UNCHANGED <<option_json, stock_json, current_yyyymmdd, current_date, max_dte,
                   base_pct, batch, price_index, masks, filter_result>>
    /\ UNCHANGED <<format, builder_vars, threshold_vars, par_vars>>

\* return serialize_empty_batch_to_ipc() / serialize_empty_batch_to_parquet()
EncodeEmpty ==
    /\ pc = "encode_empty"
    /\ \E len \in WrittenLengths(empty_batch) :
           /\ written' = len
           /\ py_result' = Serialize(format, empty_batch, len)
    /\ pc' = "done"
    /\ UNCHANGED <<option_json, stock_json, current_yyyymmdd, current_date, max_dte,
                   base_pct, batch, price_index, masks, filter_result>>
    /\ UNCHANGED <<format, builder_vars, threshold_vars, par_vars>>

\* builder.append_tick(tick, contract) on a builder under construction
AppendTick ==
    /\ pc = "building"
    /\ appended < MaxAppends
    /\ \E tick \in BuilderTicks, contract \in BuilderContracts :
           tick_builder' = append_tick(tick_builder, tick, contract)
    /\ appended' = appended + 1
    /\ UNCHANGED <<pipeline_vars, encode_vars, threshold_vars, par_vars>>

\* builder.finish()
FinishBuilder ==
    /\ pc = "building"
    /\ batch' = finish(tick_builder)
    /\ pc' = "finished"
    /\ UNCHANGED <<option_json, stock_json, current_yyyymmdd, current_date, max_dte,
                   base_pct, price_index, masks, filter_result, py_result>>
    /\ UNCHANGED <<encode_vars, builder_vars, threshold_vars, par_vars>>

\* a worker takes a row nobody has taken: par_iter().enumerate() hands each
\* (index, input) to one thread
TakeRow(w) ==
    /\ par_pc = "running"
    /\ in_flight[w] = 0
    /\ \E i \in (1..Len(inputs)) \ claimed :
           /\ in_flight' = [in_flight EXCEPT ![w] = i]
           /\ claimed' = claimed \cup {i}
    /\ UNCHANGED <<par_pc, transform, inputs, results, failed, column>>
    /\ UNCHANGED <<pipeline_vars, encode_vars, builder_vars, threshold_vars>>

\* the worker's closure returns: Ok(result tagged with the index) or Err.
\* `results` keeps the order of delivery: collect() is taken to hand the results
\* back in any order the threads can finish in, the input order among them
DeliverRow(w) ==
    /\ par_pc = "running"
    /\ in_flight[w] # 0
    /\ LET i == in_flight[w]
           r == MapRow(transform, i - 1, inputs[i])
       IN IF r.kind = "Err"
          THEN failed' = TRUE /\ UNCHANGED results
          ELSE results' = Append(results, r.value) /\ UNCHANGED failed
    /\ in_flight' = [in_flight EXCEPT ![w] = 0]
    /\ UNCHANGED <<par_pc, transform, inputs, claimed, column>>
    /\ UNCHANGED <<pipeline_vars, encode_vars, builder_vars, threshold_vars>>

\* collect() returns and add_implied_volatility / add_greeks goes on: an Err of
\* the batch is the caller's Err (rows not yet taken are dropped); otherwise
\* the results are sorted by index and made into columns
SortAndAttach ==
    /\ par_pc = "running"
    /\ \A w \in DOMAIN in_flight : in_flight[w] = 0
    /\ failed \/ claimed = 1..Len(inputs)
    /\ column' = IF failed THEN Err("Failed to calculate implied volatility")
                 ELSE AttachColumns(transform, inputs, sort_unstable_by_key(results))
    /\ par_pc' = "done"
    /\ UNCHANGED <<transform, inputs, in_flight, claimed, results, failed>>
    /\ UNCHANGED <<pipeline_vars, encode_vars, builder_vars, threshold_vars>>

(***************************************************************************)
(* Documents.                                                              *)
(***************************************************************************)
OptionTicks == {OptionTickA, OptionTickB}
OptionContracts == {Call150, Call165}
StockTicks == {StockTickA, StockTickB, StockTickA2}

OptionEntries ==
    {JsonEntry(t, c) : t \in SeqsUpTo(OptionTicks, MaxOptionTicks), c \in OptionContracts}

OptionResponses ==
    {r \in SeqsUpTo(OptionEntries, MaxEntries) : SumTicks(r) <= MaxOptionTicks}

StockResponses == SeqsUpTo(StockTicks, MaxStockTicks)

OptionDocuments == {Malformed} \cup {Document(r) : r \in OptionResponses}
StockDocuments == {Malformed} \cup {Document(r) : r \in StockResponses}

\* as-of dates handed to the convenience functions: a calendar day, month 0,
\* month 13, day 0, day 32, and two days their month does not have
AsOfDates == {20231110, 20230010, 20231310, 20231100, 20231132, 20231131, 20230229}

\* expirations handed to compute_dynamic_thresholds: no date, an impossible
\* date, the days around the as-of dates, the days around a year ahead (day
\* counts 365 to 367 from 2023-11-10), and two days 2^24 and 2^24 + 1 days
\* after 2023-11-10
ThresholdExpirations ==
    {0, 20230229, 20231109, 20231110, 20231111, 20241109, 20241110, 20241111,
     479580426, 479580427}
ThresholdBasePct == {-1, 0, 1, 10}

\* batches handed directly to an encoder: tick batches of up to MaxRows rows and
\* batches whose schema has no field
EncoderRows == {<<t, c>> : t \in BuilderTicks, c \in BuilderContracts}
EncoderBatches ==
    {BatchOf(rows) : rows \in SeqsUpTo(EncoderRows, MaxRows)}
    \cup {RecordBatch(<<>>, <<>>, n) : n \in 0..1}

(***************************************************************************)
(* Specifications.                                                         *)
(***************************************************************************)
\* the parts of the state a specification does not use
EncodeIdle == format = Pending /\ written = Pending
BuilderIdle == tick_builder = Pending /\ appended = 0
ThresholdIdle == expirations = Pending /\ threshold_array = Pending /\ sqrt_calls = Pending
ParIdle ==
    /\ par_pc = Pending
    /\ transform = Pending
    /\ inputs = Pending
    /\ in_flight = Pending
    /\ claimed = {}
    /\ results = <<>>
    /\ failed = FALSE
    /\ column = Pending
\* a call of the convenience function on two documents
Init ==
    /\ pc = "parse_date"
    /\ option_json \in OptionDocuments
    /\ stock_json \in StockDocuments
    /\ current_yyyymmdd \in AsOfDates
    /\ max_dte = 120
    /\ base_pct = 1
    /\ current_date = Pending
    /\ batch = Pending
    /\ price_index = Pending
    /\ masks = Pending
    /\ filter_result = Pending
    /\ py_result = Pending
    /\ format \in {"ipc", "parquet"}
    /\ written = Pending
    /\ BuilderIdle
    /\ ThresholdIdle
    /\ ParIdle

Next == ParseCurrentDate \/ Decode \/ Filter \/ Encode \/ EncodeEmpty

Spec == Init /\ [][Next]_vars

\* a direct call of filter_contracts_arrow_native
InitFilter ==
    /\ pc = "filter"
    /\ option_json = Pending
    /\ stock_json = Pending
    /\ current_yyyymmdd = 0
    /\ current_date \in FilterDates
    /\ max_dte \in FilterMaxDte
    /\ base_pct \in FilterBasePct
    /\ batch \in WellTypedBatches \cup MistypedBatches
    /\ price_index \in FilterPriceIndexes
    /\ masks = Pending
    /\ filter_result = Pending
    /\ py_result = Pending
    /\ EncodeIdle
    /\ BuilderIdle
    /\ ThresholdIdle
    /\ ParIdle

NextFilter == Filter

SpecFilter == InitFilter /\ [][NextFilter]_vars

\* a direct call of an encoder: serialize_batch_to_* on a batch, or
\* serialize_empty_batch_to_*
InitEncode ==
    /\ format \in {"ipc", "parquet"}
    /\ written = Pending
    /\ \/ pc = "encode" /\ filter_result \in {Ok(b) : b \in EncoderBatches}
       \/ pc = "encode_empty" /\ filter_result = Pending
    /\ option_json = Pending
    /\ stock_json = Pending
    /\ current_yyyymmdd = 0
    /\ current_date = Pending
    /\ max_dte = 0
    /\ base_pct = 0
    /\ batch = Pending
    /\ price_index = Pending
    /\ masks = Pending
    /\ py_result = Pending
    /\ BuilderIdle
    /\ ThresholdIdle
    /\ ParIdle

NextEncode == Encode \/ EncodeEmpty

SpecEncode == InitEncode /\ [][NextEncode]_vars

\* a direct call of compute_dynamic_thresholds
InitThresholds ==
    /\ pc = "thresholds"
    /\ expirations \in SeqsUpTo(ThresholdExpirations, MaxThresholdRows)
    /\ current_date \in FilterDates
    /\ base_pct \in ThresholdBasePct
    /\ threshold_array = Pending
    /\ sqrt_calls = Pending
    /\ option_json = Pending
    /\ stock_json = Pending
    /\ current_yyyymmdd = 0
    /\ max_dte = 0
    /\ batch = Pending
    /\ price_index = Pending
    /\ masks = Pending
    /\ filter_result = Pending
    /\ py_result = Pending
    /\ EncodeIdle
    /\ BuilderIdle
    /\ ParIdle

NextThresholds == ComputeThresholds

SpecThresholds == InitThresholds /\ [][NextThresholds]_vars

\* a TickBatchBuilder from TickBatchBuilder::new to finish
InitBuilder ==
    /\ pc = "building"
    /\ tick_builder = TickBatchBuilder_new
    /\ appended = 0
    /\ option_json = Pending
    /\ stock_json = Pending
    /\ current_yyyymmdd = 0
    /\ current_date = Pending
    /\ max_dte = 0
    /\ base_pct = 0
    /\ batch = Pending
    /\ price_index = Pending
    /\ masks = Pending
    /\ filter_result = Pending
    /\ py_result = Pending
    /\ EncodeIdle
    /\ ThresholdIdle
    /\ ParIdle

NextBuilder == AppendTick \/ FinishBuilder

SpecBuilder == InitBuilder /\ [][NextBuilder]_vars

\* a call of add_implied_volatility or add_greeks on a frame
InitParallel ==
    /\ par_pc = "running"
    /\ transform \in {"iv", "greeks"}
    /\ inputs \in SeqsUpTo(ParValues, MaxParRows)
    /\ \E n \in 1..MaxWorkers : in_flight = [w \in 1..n |-> 0]
    /\ claimed = {}
    /\ results = <<>>
    /\ failed = FALSE
    /\ column = Pending
    /\ pc = Pending
    /\ option_json = Pending
    /\ stock_json = Pending
    /\ current_yyyymmdd = 0
    /\ current_date = Pending
    /\ max_dte = 0
    /\ base_pct = 0
    /\ batch = Pending
    /\ price_index = Pending
    /\ masks = Pending
    /\ filter_result = Pending
    /\ py_result = Pending
    /\ EncodeIdle
    /\ BuilderIdle
    /\ ThresholdIdle

NextParallel ==
    \/ \E w \in DOMAIN in_flight : TakeRow(w)
    \/ \E w \in DOMAIN in_flight : DeliverRow(w)
    \/ SortAndAttach

SpecParallel == InitParallel /\ [][NextParallel]_vars

(***************************************************************************)
(* Properties of the filter engine (checked under SpecFilter).             *)
(***************************************************************************)
FilterReturned == filter_result.kind \in {"Ok", "Err"}
FilterSucceeded == filter_result.kind = "Ok"
MasksComputed == masks.kind = "Masks"
Rows(b) == 1..b.num_rows

\* cells of input row i that the filter reads
RightOf(b, i) == Column(b, "right")[i]
ExpirationOf(b, i) == Column(b, "expiration")[i]
StrikeOf(b, i) == Column(b, "strike")[i]
MsOfDayOf(b, i) == Column(b, "ms_of_day")[i]

\* the expiration integer n read as year, month, day
ExpYear(n) == n \div 10000
ExpMonth(n) == (n % 10000) \div 100
ExpDay(n) == n % 100
IsRealDate(n) ==
    /\ ExpMonth(n) \in 1..12
    /\ ExpDay(n) \in 1..DaysInMonth(ExpYear(n), ExpMonth(n))
DteOf(n, cur) ==
    num_days([kind |-> "Date", year |-> ExpYear(n), month |-> ExpMonth(n),
              day |-> ExpDay(n)], cur)

\* C1: no row of a batch returned by filter has right = "U".
C1_NoUnderlyingRowSurvives ==
    FilterSucceeded =>
        \A i \in Rows(filter_result.value) : RightOf(filter_result.value, i) # "U"

\* an underlying row inside the horizon, with a quote at its time-of-day and a strike
\* equal to that quote, was filtered out of a batch that kept another row
C1_Witness ==
    /\ FilterSucceeded
    /\ MasksComputed
    /\ filter_result.value.num_rows > 0
    /\ \E i \in Rows(batch) :
          /\ RightOf(batch, i) = "U"
          /\ masks.dte_mask[i]
          /\ MsOfDayOf(batch, i) \in DOMAIN price_index
          /\ StrikeDollars(StrikeOf(batch, i)) = price_index[MsOfDayOf(batch, i)]

\* rows of the input whose two masks are both true, and the k-th of them
KeptRows == {i \in Rows(batch) : masks.dte_mask[i] /\ masks.moneyness_mask[i]}
NthKept(k) == CHOOSE i \in KeptRows : Cardinality({j \in KeptRows : j < i}) = k - 1

\* C2: on a non-empty batch the returned batch is exactly the input rows whose horizon
\* mask and moneyness mask are both true, in input order, with all 14 cells unchanged.
C2_ExactSubsequence ==
    (FilterSucceeded /\ batch.num_rows > 0) =>
        LET out == filter_result.value
        IN /\ MasksComputed
           /\ out.num_rows = Cardinality(KeptRows)
           /\ out.schema = batch.schema
           /\ Len(out.columns) = 14
           /\ \A c \in 1..14 : Len(out.columns[c]) = Cardinality(KeptRows)
           /\ \A k \in 1..Cardinality(KeptRows) : RowAt(out, k) = RowAt(batch, NthKept(k))

\* two different rows were kept: their order is visible in the output
C2_Witness ==
    /\ FilterSucceeded
    /\ filter_result.value.num_rows >= 2
    /\ RowAt(filter_result.value, 1) # RowAt(filter_result.value, 2)

\* arguments and schema that pass every precondition of filter
ArgumentsValid ==
    /\ DOMAIN price_index # {}
    /\ max_dte > 0
    /\ base_pct > 0
    /\ base_pct <= 10

\* C3: the horizon mask of a row is true iff its expiration is a real calendar date
\* with 0 < dte <= max_dte; a row whose expiration is no real date gets mask false and
\* does not make the call fail.
C3_HorizonMask ==
    /\ MasksComputed =>
          \A i \in Rows(batch) :
              masks.dte_mask[i] <=>
                  /\ IsRealDate(ExpirationOf(batch, i))
                  /\ DteOf(ExpirationOf(batch, i), current_date) > 0
                  /\ DteOf(ExpirationOf(batch, i), current_date) <= max_dte
    /\ (FilterReturned /\ ArgumentsValid /\ batch.schema = create_tick_schema) =>
          FilterSucceeded

\* a call succeeded on a batch holding a row whose expiration passes the range check
\* but is no calendar date (2023-02-29) next to a row that passed the horizon
C3_Witness ==
    /\ FilterSucceeded
    /\ MasksComputed
    /\ \E i \in Rows(batch) :
          /\ ExpirationOf(batch, i) = 20230229
          /\ ~masks.dte_mask[i]
    /\ \E i \in Rows(batch) : masks.dte_mask[i]

\* threshold of the claim: base_pct * sqrt(dte)
ClaimedThreshold(n, cur) == [coef |-> base_pct, rad |-> DteOf(n, cur)]

\* threshold of the code: base_pct * sqrt(dte) for a real date with dte > 0, else 0
ActualThreshold(n, cur) ==
    IF IsRealDate(n) /\ DteOf(n, cur) > 0
    THEN [coef |-> base_pct, rad |-> DteOf(n, cur)]
    ELSE [coef |-> 0, rad |-> 0]

HasExactQuote(i) == MsOfDayOf(batch, i) \in DOMAIN price_index
QuoteOf(i) == price_index[MsOfDayOf(batch, i)]
StrikeDistance(i) == Abs(StrikeDollars(StrikeOf(batch, i)) - QuoteOf(i))

\* diff <= price * (coef / 10) * sqrt(rad), decided on the squares:
\* ceil((10 diff)^2 / rad) <= (price coef)^2
WithinBand(diff, price, threshold) ==
    IF threshold.rad < 0 THEN FALSE
    ELSE IF threshold.rad = 0 \/ price * threshold.coef = 0 THEN diff = 0
    ELSE IF price * threshold.coef < 0 THEN FALSE
    ELSE ((10 * diff) * (10 * diff) + threshold.rad - 1) \div threshold.rad
            <= (price * threshold.coef) * (price * threshold.coef)

\* the rows of the example: as-of 20231110, expiration 20231117, base_pct 0.10,
\* midpoint 149.80 at the row's time-of-day
ExampleRow(i, strike) ==
    /\ current_date = from_ymd_opt(2023, 11, 10)
    /\ base_pct = 1
    /\ RightOf(batch, i) # "U"
    /\ ExpirationOf(batch, i) = 20231117
    /\ StrikeOf(batch, i) = strike
    /\ HasExactQuote(i)
    /\ QuoteOf(i) = 2996

\* C4 as stated: for a row whose right is not "U" the moneyness mask is true iff the
\* index has an entry at the row's time-of-day and
\* |strike_dollars - price| <= price * base_pct * sqrt(dte); in the example the 150.00
\* strike passes and the 165.00 strike fails.
C4_AsStated ==
    MasksComputed =>
        \A i \in Rows(batch) :
            /\ RightOf(batch, i) # "U" =>
                  (masks.moneyness_mask[i] <=>
                      /\ HasExactQuote(i)
                      /\ IsRealDate(ExpirationOf(batch, i))
                      /\ WithinBand(StrikeDistance(i), QuoteOf(i),
                                    ClaimedThreshold(ExpirationOf(batch, i), current_date)))
            /\ ExampleRow(i, 1500000) => masks.moneyness_mask[i]
            /\ ExampleRow(i, 1650000) => ~masks.moneyness_mask[i]

\* C4 amended: for a row whose right is not "U" the moneyness mask is true iff the
\* index has an entry at exactly the row's time-of-day and
\* |strike_dollars - price| <= price * threshold, the threshold being
\* base_pct * sqrt(dte) for a real expiration date with dte > 0 and 0 otherwise; in
\* the example both the 150.00 and the 165.00 strike pass.
C4_MoneynessMask ==
    MasksComputed =>
        \A i \in Rows(batch) :
            /\ RightOf(batch, i) # "U" =>
                  (masks.moneyness_mask[i] <=>
                      /\ HasExactQuote(i)
                      /\ WithinBand(StrikeDistance(i), QuoteOf(i),
                                    ActualThreshold(ExpirationOf(batch, i), current_date)))
            /\ ExampleRow(i, 1500000) => masks.moneyness_mask[i]
            /\ ExampleRow(i, 1650000) => masks.moneyness_mask[i]

\* the example's 165.00 row was evaluated next to a row at a time-of-day without a
\* quote whose strike equals the only quote there is
C4_Witness ==
    /\ MasksComputed
    /\ \E i \in Rows(batch) : ExampleRow(i, 1650000) /\ masks.moneyness_mask[i]
    /\ \E i \in Rows(batch) :
          /\ RightOf(batch, i) # "U"
          /\ ~HasExactQuote(i)
          /\ \E k \in DOMAIN price_index :
                StrikeDollars(StrikeOf(batch, i)) = price_index[k] + 4
          /\ ~masks.moneyness_mask[i]

\* C5 as stated: with max_dte = 0 on a non-empty batch the call returns a batch with
\* zero rows.
C5_AsStated ==
    (FilterReturned /\ max_dte = 0 /\ batch.num_rows > 0) =>
        /\ FilterSucceeded
        /\ filter_result.value.num_rows = 0

\* C5 amended: with max_dte = 0 on a non-empty batch no row is returned, whatever the
\* moneyness: the call fails with a validation error (empty price index, or max_dte
\* not positive) and returns no batch; the horizon mask for max_dte = 0 is false for
\* every row, since a row passes only when 0 < dte <= max_dte.
C5_MaxDteZeroFails ==
    (FilterReturned /\ max_dte = 0 /\ batch.num_rows > 0) =>
        /\ filter_result.kind = "Err"
        /\ filter_result.error \in {"Price index cannot be empty",
                                    "Max DTE must be positive"}
        /\ "value" \notin DOMAIN filter_result
        /\ batch.schema = create_tick_schema =>
              \A i \in Rows(batch) :
                  ~filter_dte_arrow(Column(batch, "expiration"), current_date, max_dte)[i]

\* max_dte = 0 with every other argument valid and a row whose strike is within the
\* band of the quote at its time-of-day
C5_Witness ==
    /\ FilterReturned
    /\ max_dte = 0
    /\ batch.num_rows > 0
    /\ batch.schema = create_tick_schema
    /\ DOMAIN price_index # {}
    /\ base_pct = 1
    /\ \E i \in Rows(batch) :
          /\ RightOf(batch, i) = "C"
          /\ HasExactQuote(i)
          /\ DteOf(ExpirationOf(batch, i), current_date) = 7
          /\ StrikeDistance(i) = 4

\* a required column is absent or has another element type than the filter expects
ColumnUnusable(b, name, data_type) ==
    ~\E i \in 1..Len(b.schema) :
        b.schema[i].name = name /\ b.schema[i].data_type = data_type

RequiredColumnUnusable(b) ==
    \/ ColumnUnusable(b, "expiration", "UInt32")
    \/ ColumnUnusable(b, "strike", "UInt32")
    \/ ColumnUnusable(b, "ms_of_day", "UInt32")
    \/ ColumnUnusable(b, "right", "Utf8")

RequiredLengthsDiffer(b) ==
    \E i \in 1..Len(b.schema) :
        b.schema[i].name \in RequiredColumns /\ Len(b.columns[i]) # b.num_rows

\* C6: on a non-empty batch the call fails, returning no batch, exactly when the price
\* index is empty, or max_dte <= 0, or base_pct <= 0 or > 1, or a required column is
\* missing or mistyped, or the required columns' lengths differ from the row count.
C6_ValidationErrors ==
    (FilterReturned /\ batch.num_rows > 0) =>
        /\ filter_result.kind = "Err" <=>
              \/ DOMAIN price_index = {}
              \/ max_dte <= 0
              \/ base_pct <= 0
              \/ base_pct > 10
              \/ RequiredColumnUnusable(batch)
              \/ RequiredLengthsDiffer(batch)
        /\ filter_result.kind = "Err" =>
              /\ "value" \notin DOMAIN filter_result
              /\ ~MasksComputed

\* a call with valid arguments failed on a batch whose strike column is mistyped
C6_Witness ==
    /\ filter_result.kind = "Err"
    /\ batch.num_rows > 0
    /\ ArgumentsValid
    /\ column_by_name(batch, "strike") # 0
    /\ ColumnUnusable(batch, "strike", "UInt32")

\* C7: on a batch with zero rows the call succeeds and returns the batch unchanged,
\* whatever the other arguments; no precondition is checked.
C7_EmptyBatchReturned ==
    (FilterReturned /\ batch.num_rows = 0) =>
        /\ FilterSucceeded
        /\ filter_result.value = batch
        /\ ~MasksComputed

\* a zero-row batch without its strike column came back from a call with an empty
\* price index, max_dte = 0 and base_pct = 1.1
C7_Witness ==
    /\ FilterSucceeded
    /\ batch.num_rows = 0
    /\ column_by_name(batch, "strike") = 0
    /\ DOMAIN price_index = {}
    /\ max_dte <= 0
    /\ base_pct > 10
    /\ filter_result.value = batch

(***************************************************************************)
(* Properties of decode (checked under Spec).                              *)
(***************************************************************************)
\* parse_jsons_to_combined_arrow has returned
DecodeReturned == current_date.kind = "Date" /\ pc # "decode"
DecodeSucceeded == DecodeReturned /\ "num_rows" \in DOMAIN batch

\* the option ticks of a response in document order, each with its entry's contract
RECURSIVE OptionTicksInOrder(_)
OptionTicksInOrder(entries) ==
    IF entries = <<>> THEN <<>>
    ELSE [k \in 1..Len(Head(entries).ticks) |->
             [tick |-> Head(entries).ticks[k], contract |-> Head(entries).contract]]
         \o OptionTicksInOrder(Tail(entries))

\* the 10 tick cells of a row, as the column types store them
TickCells(t) ==
    <<t[1], t[2] % 65536, t[3] % 256, t[4], t[5] % 256,
      t[6] % 65536, t[7] % 256, t[8], t[9] % 256, t[10]>>

\* C8: a decoded batch holds every option tick in document order, tagged with its
\* entry's contract, followed by every underlying tick in document order, tagged with
\* expiration 0, strike 0, right "U"; its row count is the number of ticks.
C8_RowOrder ==
    DecodeSucceeded =>
        LET opt == OptionTicksInOrder(option_json.response)
            und == stock_json.response
        IN /\ batch.num_rows = Len(opt) + Len(und)
           /\ \A i \in 1..Len(opt) :
                 /\ SubSeq(RowAt(batch, i), 1, 10) = TickCells(opt[i].tick)
                 /\ SubSeq(RowAt(batch, i), 11, 14) =
                        <<opt[i].contract.root, opt[i].contract.expiration,
                          opt[i].contract.strike, opt[i].contract.right>>
           /\ \A j \in 1..Len(und) :
                 /\ SubSeq(RowAt(batch, Len(opt) + j), 1, 10) = TickCells(und[j])
                 /\ SubSeq(RowAt(batch, Len(opt) + j), 12, 14) = <<0, 0, "U">>

\* two entries with different contracts and an underlying feed were decoded
C8_Witness ==
    /\ DecodeSucceeded
    /\ Len(option_json.response) = 2
    /\ option_json.response[1].contract # option_json.response[2].contract
    /\ Len(option_json.response[1].ticks) > 0
    /\ Len(option_json.response[2].ticks) > 0
    /\ Len(stock_json.response) = 2
    /\ batch.num_rows = 4

\* position of the last underlying tick at time-of-day ms
LastAt(feed, ms) == CHOOSE i \in 1..Len(feed) :
    /\ feed[i][1] = ms
    /\ \A j \in 1..Len(feed) : feed[j][1] = ms => j <= i

\* C9: the price index has one entry per distinct time-of-day of the underlying feed
\* and no other; each entry is the midpoint (bid + ask) / 2 of the last tick at that
\* time-of-day in feed order.
C9_PriceIndex ==
    DecodeSucceeded =>
        LET feed == stock_json.response
        IN /\ DOMAIN price_index = {feed[i][1] : i \in 1..Len(feed)}
           /\ \A ms \in DOMAIN price_index :
                 price_index[ms] =
                     (feed[LastAt(feed, ms)][4] + feed[LastAt(feed, ms)][8]) \div 2

\* the feed quotes one time-of-day twice with different midpoints, and an option tick
\* has a time-of-day the feed does not quote
C9_Witness ==
    /\ DecodeSucceeded
    /\ Len(stock_json.response) = 2
    /\ stock_json.response[1][1] = stock_json.response[2][1]
    /\ stock_json.response[1][4] + stock_json.response[1][8]
          # stock_json.response[2][4] + stock_json.response[2][8]
    /\ Cardinality(DOMAIN price_index) = 1
    /\ \E i \in 1..Len(OptionTicksInOrder(option_json.response)) :
          OptionTicksInOrder(option_json.response)[i].tick[1] \notin DOMAIN price_index

ColumnNames ==
    <<"ms_of_day", "bid_size", "bid_exchange", "bid_price", "bid_condition",
      "ask_size", "ask_exchange", "ask_price", "ask_condition", "date",
      "root", "expiration", "strike", "right">>

NoTicks ==
    /\ option_json.wellformed
    /\ stock_json.wellformed
    /\ \A i \in 1..Len(option_json.response) : option_json.response[i].ticks = <<>>
    /\ stock_json.response = <<>>

\* C10: two well-formed documents without any tick decode successfully to a zero-row
\* batch with the 14-column schema and an empty price index, also when the option
\* document has entries whose tick lists are empty.
C10_EmptyDecode ==
    (DecodeReturned /\ NoTicks) =>
        /\ DecodeSucceeded
        /\ py_result.kind # "Err"
        /\ batch.num_rows = 0
        /\ Len(batch.schema) = 14
        /\ \A c \in 1..14 : batch.schema[c].name = ColumnNames[c]
        /\ Len(batch.columns) = 14
        /\ \A c \in 1..14 : batch.columns[c] = <<>>
        /\ DOMAIN price_index = {}

\* an option document with two entries, both without ticks, was decoded
C10_Witness ==
    /\ DecodeReturned
    /\ NoTicks
    /\ Len(option_json.response) = 2
    /\ batch.num_rows = 0

(***************************************************************************)
(* Decode errors (checked under Spec).                                     *)
(***************************************************************************)
DecodeFailed == DecodeReturned /\ ~DecodeSucceeded

\* what the convenience function reports for a decode of these two documents
DecodeErrorOf(option_doc, stock_doc) ==
    <<"JSON parsing failed: ", parse_jsons_to_combined_arrow(option_doc, stock_doc).error>>

\* C11, as stated: when either document is malformed the decode fails, yields
\* neither a batch nor a price index, and its error tells which of the two
\* documents failed: the error of a malformed option document is not the error
\* the call reports when the underlying document is the malformed one, and the
\* other way round.
C11_AsStated ==
    /\ DecodeReturned
           => (DecodeFailed <=> (~option_json.wellformed \/ ~stock_json.wellformed))
    /\ DecodeFailed =>
           /\ price_index = Pending
           /\ py_result.kind = "Err"
           /\ ~option_json.wellformed
                  => py_result.error # DecodeErrorOf(Document(<<>>), Malformed)
           /\ (option_json.wellformed /\ ~stock_json.wellformed)
                  => py_result.error # DecodeErrorOf(Malformed, Document(<<>>))

(***************************************************************************)
(* Shape of the batches (C12 under Spec, C13 under SpecBuilder).           *)
(***************************************************************************)
IsBatch(b) == "num_rows" \in DOMAIN b

\* the batch has the 14 columns of the schema, each as long as the row count
FourteenEqualColumns(b) ==
    /\ IsBatch(b)
    /\ Len(b.schema) = 14
    /\ Len(b.columns) = 14
    /\ \A c \in 1..14 : Len(b.columns[c]) = b.num_rows

\* C12: every batch the pipeline produces, the batch finish hands to decode (a
\* zero-row batch included) and the batch a successful filter call returns, has 14
\* columns of one length, which is its row count.
C12_ColumnsAsLongAsRowCount ==
    /\ DecodeSucceeded => FourteenEqualColumns(batch)
    /\ FilterSucceeded => FourteenEqualColumns(filter_result.value)

\* a filter call dropped some rows of a decoded batch and kept others
C12_Witness ==
    /\ FilterSucceeded
    /\ filter_result.value.num_rows >= 1
    /\ filter_result.value.num_rows < batch.num_rows

\* C13: after any number of append_tick calls each of the 14 column builders holds
\* one value per call, and the batch finish makes of them has 14 columns of that
\* length: no builder state with a row in some columns only is seen by an append
\* or by finish.
C13_AppendIsWholeRow ==
    /\ pc \in {"building", "finished"} =>
           \A c \in 1..14 : Len(Builders(tick_builder)[c]) = appended
    /\ pc = "finished" => FourteenEqualColumns(batch) /\ batch.num_rows = appended

\* finish ran on a builder that had taken several rows
C13_Witness == pc = "finished" /\ appended >= 2 /\ IsBatch(batch)

(***************************************************************************)
(* Row-wise transforms (checked under SpecParallel).                       *)
(***************************************************************************)
TransformSucceeded == par_pc = "done" /\ column.kind = "Ok"

\* C14: every result a worker delivers is the result of one input row and carries
\* that row's index, no row is delivered twice, and when the transform succeeds
\* every row has been computed and position i of each output column holds the
\* value computed from input row i, whatever the number of workers and the
\* order in which they delivered.
C14_OutputInInputOrder ==
    /\ par_pc \in {"running", "done"} =>
           /\ \A k \in 1..Len(results) :
                  /\ results[k].index + 1 \in claimed
                  /\ MapRow(transform, results[k].index, inputs[results[k].index + 1])
                         = Ok(results[k])
           /\ \A j, k \in 1..Len(results) : results[j].index = results[k].index => j = k
    /\ TransformSucceeded =>
           /\ claimed = 1..Len(inputs)
           /\ \A name \in OutputColumns(transform) :
                  /\ Len(column.value[name]) = Len(inputs)
                  /\ \A i \in 1..Len(inputs) :
                         column.value[name][i] = Kernel(transform, inputs[i]).value[name]

\* a transform succeeded although the workers delivered a later row first
C14_Witness ==
    /\ TransformSucceeded
    /\ Cardinality(DOMAIN in_flight) = 2
    /\ \E j, k \in 1..Len(results) : j < k /\ results[j].index > results[k].index
    /\ \E i, j \in 1..Len(inputs) : inputs[i] # inputs[j]

(***************************************************************************)
(* Encoding (C15 under Spec, C17 under SpecEncode).                        *)
(***************************************************************************)
CallReturned == pc = "done"
Limit(fmt) == IF fmt = "ipc" THEN IpcLimit ELSE ParquetLimit

\* C15: a batch without rows encodes successfully in both formats: either
\* convenience function returns bytes when the decode yields no row and when the
\* filter succeeds with no surviving row, and the payload holds no row.
C15_ZeroRowsEncode ==
    /\ (CallReturned /\ DecodeSucceeded /\ batch.num_rows = 0) =>
           /\ py_result.kind = "Ok"
           /\ py_result.value.format = format
           /\ py_result.value.num_rows = 0
    /\ (CallReturned /\ FilterSucceeded /\ filter_result.value.num_rows = 0) =>
           /\ py_result.kind = "Ok"
           /\ py_result.value.format = format
           /\ py_result.value.num_rows = 0

\* the Parquet function returned after its filter call dropped every row of a
\* batch that had option rows
C15_Witness ==
    /\ CallReturned
    /\ format = "parquet"
    /\ FilterSucceeded
    /\ filter_result.value.num_rows = 0
    /\ \E i \in Rows(batch) : RightOf(batch, i) # "U"
    /\ py_result.kind = "Ok"

\* the batch the encoder was called on
EncoderInput == IF pc = "done" /\ filter_result = Pending THEN empty_batch
                ELSE filter_result.value

\* C17: an encoder returns an error and no bytes when the schema of its batch has
\* no field, and when the payload it wrote is longer than its ceiling (100 MiB for
\* the stream format, 50 MiB for the file format); a payload of exactly the ceiling,
\* or shorter, is returned, whole.
C17_EncoderLimits ==
    CallReturned =>
        IF Len(EncoderInput.schema) = 0 THEN py_result.kind = "Err"
        ELSE IF written > Limit(format) THEN py_result.kind = "Err"
        ELSE /\ py_result.kind = "Ok"
             /\ py_result.value.len = written
             /\ py_result.value.format = format

\* the stream encoder returned a payload of exactly 100 MiB
C17_Witness ==
    /\ CallReturned
    /\ format = "ipc"
    /\ written = 100 * 1024 * 1024
    /\ py_result.kind = "Ok"

(***************************************************************************)
(* Size of the filtered batch (checked under SpecFilter).                  *)
(***************************************************************************)
SomeRowFails == \E i \in Rows(batch) : ~(masks.dte_mask[i] /\ masks.moneyness_mask[i])

ThresholdsReturned == pc = "thresholds_done"
ThresholdsOver == pc \in {"thresholds_done", "thresholds_panicked"}
ThresholdRows == 1..Len(expirations)

\* the calendar date an expiration stands for, None when it stands for none
DateOfExpiration(e) == from_ymd_opt(e \div 10000, (e % 10000) \div 100, e % 100)
HasDte(e) == DateOfExpiration(e).kind = "Date"
DteOfExpiration(e) == num_days(DateOfExpiration(e), current_date)

\* t1 < t2 for two thresholds with coefficients >= 0
ThresholdLess(t1, t2) == t1.coef * t1.coef * t1.rad < t2.coef * t2.coef * t2.rad

\* C18, as stated: with base_pct in (0, 1], of two rows with positive day counts
\* the row with the larger day count gets the strictly larger threshold.
C18_AsStated ==
    (ThresholdsReturned /\ base_pct \in 1..10) =>
        \A i, j \in ThresholdRows :
            (/\ HasDte(expirations[i]) /\ HasDte(expirations[j])
             /\ 0 < DteOfExpiration(expirations[i])
             /\ DteOfExpiration(expirations[i]) < DteOfExpiration(expirations[j]))
                => ThresholdLess(threshold_array[i], threshold_array[j])

\* C19: every fast_sqrt call with a day count in 0..365 is served from the table,
\* at the index that is the day count, and the entry is the square root computed
\* directly; every call with a larger day count is computed directly and reads
\* no entry.  The table has the 366 entries 0..365.
C19_TableOrDirect ==
    /\ DOMAIN SQRT_LUT = 0..365
    /\ ThresholdsOver =>
           \A i \in ThresholdRows :
               LET call == sqrt_calls[i]
               IN call.kind = "Call" =>
                     /\ call.dte = DteOfExpiration(expirations[i])
                     /\ call.dte \in 0..365 =>
                            /\ call.path = "table"
                            /\ call.index = call.dte
                            /\ call.value = Sqrt(call.dte)
                     /\ call.dte \notin 0..365 =>
                            /\ call.path = "direct"
                            /\ call.value = Sqrt(call.dte)

\* one call took day count 365 from the table and another computed 366 directly
C19_Witness ==
    /\ ThresholdsReturned
    /\ \E i, j \in ThresholdRows :
           /\ sqrt_calls[i].kind = "Call" /\ sqrt_calls[i].dte = 365
           /\ sqrt_calls[i].path = "table"
           /\ sqrt_calls[j].kind = "Call" /\ sqrt_calls[j].dte = 366
           /\ sqrt_calls[j].path = "direct"

\* C20: compute_dynamic_thresholds never panics; it calls fast_sqrt exactly for
\* the rows whose expiration is a calendar date after the as-of date, so every
\* index into the table is between 1 and 365, and a row with no date or with a
\* day count <= 0 gets the threshold 0 without any lookup.
C20_IndexInsideTable ==
    /\ pc # "thresholds_panicked"
    /\ ThresholdsReturned =>
           \A i \in ThresholdRows :
               LET call == sqrt_calls[i]
                   live == HasDte(expirations[i]) /\ DteOfExpiration(expirations[i]) > 0
               IN /\ call.kind = "Call" <=> live
                  /\ call.kind = "Call" =>
                         /\ ~IsPanic(call.value)
                         /\ call.path = "table" => (1 <= call.index /\ call.index <= 365)
                  /\ ~live => threshold_array[i] = ZeroThreshold

\* one array held a row that expires on or before the as-of date and a row that
\* read the last entry of the table
C20_Witness ==
    /\ ThresholdsReturned
    /\ \E i \in ThresholdRows :
           HasDte(expirations[i]) /\ DteOfExpiration(expirations[i]) <= 0
    /\ \E i \in ThresholdRows : sqrt_calls[i].kind = "Call" /\ sqrt_calls[i].index = 365


(***************************************************************************)
(* C21: the convenience functions validate the as-of date first and run    *)
(* their stages in order.                                                  *)
(***************************************************************************)
\* the as-of date names a day of the calendar
RealCalendarDate(date) ==
    LET year == date \div 10000
        month == (date % 10000) \div 100
        day == date % 100
    IN /\ month \in 1..12
       /\ day \in 1..31
       /\ day <= DaysInMonth(year, month)

\* the steps a call may take from one stage to the next
StageOrder ==
    {<<"parse_date", "decode">>, <<"parse_date", "done">>,
     <<"decode", "filter">>, <<"decode", "encode_empty">>, <<"decode", "done">>,
     <<"filter", "encode">>, <<"filter", "done">>,
     <<"encode", "done">>, <<"encode_empty", "done">>}

NothingDecoded == batch = Pending /\ price_index = Pending
NothingFiltered == masks = Pending /\ filter_result = Pending
NothingEncoded == written = Pending

\* the call has run one of its two encodes: that of the filter's batch, or that
\* of the batch without rows after a decode without rows
EncodeRan ==
    /\ CallReturned
    /\ (FilterSucceeded \/ (DecodeSucceeded /\ batch.num_rows = 0))

\* some stage of the call has reported an error
SomeStageFailed ==
    \/ ~RealCalendarDate(current_yyyymmdd)
    \/ DecodeFailed
    \/ filter_result.kind = "Err"
    \/ (EncodeRan /\ written > Limit(format))

\* C21: an as-of date that is not a day of the calendar (month 0 or above 12,
\* day 0 or above 31, or a day its month does not have) makes the call fail
\* with nothing decoded, filtered or encoded, whatever the documents are; with
\* any other as-of date the stages run in the order decode, filter, encode
\* (the filter and its encode only after a decode that returned, the encode
\* only after a filter that returned), and a call in which a stage failed
\* returns an error and no bytes, while a call without a failure returns bytes.
C21_DateThenStagesInOrder ==
    /\ [](~RealCalendarDate(current_yyyymmdd) =>
             /\ pc \in {"parse_date", "done"}
             /\ current_date = Pending
             /\ NothingDecoded /\ NothingFiltered /\ NothingEncoded
             /\ (CallReturned => py_result.kind = "Err"))
    /\ [](RealCalendarDate(current_yyyymmdd) =>
             /\ (pc = "parse_date" => current_date = Pending)
             /\ (pc \in {"parse_date", "decode"} => NothingDecoded)
             /\ (pc \in {"parse_date", "decode", "filter"} =>
                     NothingFiltered /\ NothingEncoded)
             /\ (pc \in {"filter", "encode", "encode_empty"} => DecodeSucceeded)
             /\ (pc = "encode" => FilterSucceeded)
             /\ (pc = "encode_empty" => NothingFiltered))
    /\ [](IF CallReturned
          THEN py_result.kind = (IF SomeStageFailed THEN "Err" ELSE "Ok")
          ELSE py_result = Pending)
    /\ [][pc' # pc => <<pc, pc'>> \in StageOrder]_vars

\* a call with an impossible as-of date and two well-formed documents without
\* ticks has returned its error
C21_Witness ==
    /\ CallReturned
    /\ ~RealCalendarDate(current_yyyymmdd)
    /\ NoTicks
    /\ py_result.kind = "Err"
    /\ NothingDecoded

\* a call with a calendar as-of date went through decode and filter and failed
\* in its encode
C21_WitnessEncodeFails ==
    /\ CallReturned
    /\ RealCalendarDate(current_yyyymmdd)
    /\ FilterSucceeded
    /\ EncodeRan
    /\ written > Limit(format)
    /\ py_result.kind = "Err"


(***************************************************************************)
(* C22: option ticks without a single underlying tick.                     *)
(***************************************************************************)
\* the option document holds a tick and the underlying document holds none
OptionTicksOnly ==
    /\ option_json.wellformed
    /\ stock_json.wellformed
    /\ SumTicks(option_json.response) >= 1
    /\ stock_json.response = <<>>

\* C22: when the option document holds at least one tick and the underlying
\* document holds none, the decode succeeds with a batch of one row a tick and
\* a price index without entries; the filter of that batch and index returns
\* the error "Price index cannot be empty" for every max_dte and base_pct,
\* never a batch (so never a batch without rows); and the convenience function
\* returns that error, prefixed "Filtering failed: ", and no bytes.
C22_EmptyIndexIsAnError ==
    (OptionTicksOnly /\ DecodeReturned) =>
        /\ DecodeSucceeded
        /\ batch.num_rows = SumTicks(option_json.response)
        /\ DOMAIN price_index = {}
        /\ \A mdte \in FilterMaxDte \cup {-1, max_dte} :
           \A bpct \in FilterBasePct \cup {-1, base_pct} :
               filter_contracts_arrow_native(batch, current_date, price_index, mdte, bpct)
                   = Err("Price index cannot be empty")
        /\ pc \in {"filter", "done"}
        /\ (CallReturned =>
               /\ filter_result = Err("Price index cannot be empty")
               /\ py_result = Err(<<"Filtering failed: ", "Price index cannot be empty">>)
               /\ written = Pending)

\* a call with an option tick and no underlying tick has returned
C22_Witness ==
    /\ OptionTicksOnly
    /\ CallReturned
    /\ DecodeSucceeded
    /\ batch.num_rows >= 1
    /\ DOMAIN price_index = {}
    /\ filter_result.kind = "Err"


(***************************************************************************)
(* C23: the casts of append_tick (checked under SpecBuilder).              *)
(***************************************************************************)
\* the integer cells of row i of a builder: time-of-day, bid size, exchange and
\* condition, ask size, exchange and condition, date, expiration, strike
IntegerCells(self, i) ==
    << self.ms_of_day[i], self.bid_size[i], self.bid_exchange[i], self.bid_condition[i],
       self.ask_size[i], self.ask_exchange[i], self.ask_condition[i], self.date[i],
       self.expiration[i], self.strike[i] >>

\* the same ten values as the documents give them
DocumentValues(tick, contract) ==
    << tick[1], tick[2], tick[3], tick[5], tick[6], tick[7], tick[9], tick[10],
       contract.expiration, contract.strike >>

\* what each of the ten columns can hold: 2^16 values for a size, 2^8 for a
\* code, 2^32 for the others (the model's u32 values are below 2^31)
ColumnModulus == <<0, 65536, 256, 256, 65536, 256, 256, 0, 0, 0>>

\* the tick and contract of an append, told by the row it left in the builder
IsRowOf(self, i, tick, contract) ==
    /\ self.ms_of_day[i] = tick[1]
    /\ self.bid_price[i] = tick_bid_price(tick)
    /\ self.ask_price[i] = tick_ask_price(tick)
    /\ self.date[i] = tick[10]
    /\ self.root[i] = contract.root
    /\ self.right[i] = contract.right

\* C23: every append_tick adds a row, whatever the tick's values (no tick is
\* rejected for a size or code too large for its column), and leaves the rows
\* before it alone; in the new row a bid or ask size is the document's value
\* modulo 2^16 and an exchange or condition code is the document's value modulo
\* 2^8, so that the cell equals the document's value iff that value is below
\* 65536 (sizes) or below 256 (codes); time-of-day, date, expiration and strike
\* are the document's values.
C23_CastsWrapAround ==
    [][appended' = appended + 1 =>
          /\ \A c \in 1..14 : Len(Builders(tick_builder')[c]) = appended'
          /\ \A i \in 1..appended :
                 IntegerCells(tick_builder', i) = IntegerCells(tick_builder, i)
          /\ \E tick \in BuilderTicks, contract \in BuilderContracts :
                 IsRowOf(tick_builder', appended', tick, contract)
          /\ \A tick \in BuilderTicks, contract \in BuilderContracts :
                 IsRowOf(tick_builder', appended', tick, contract) =>
                     \A k \in 1..10 :
                        LET cell == IntegerCells(tick_builder', appended')[k]
                            value == DocumentValues(tick, contract)[k]
                            modulus == ColumnModulus[k]
                        IN IF modulus = 0
                           THEN cell = value
                           ELSE /\ cell = value % modulus
                                /\ (cell = value) <=> (value < modulus)]_vars

\* a builder holds the row of the tick past the limits: bid size 65536 stored
\* as 0, ask size 131073 as 1, exchange 256 as 0 and 511 as 255, condition 256
\* as 0 and 257 as 1
C23_Witness ==
    /\ pc = "building"
    /\ appended >= 2
    /\ \E i \in 1..appended :
           IntegerCells(tick_builder, i) =
               <<34200002, 0, 0, 0, 1, 255, 1, 20231117, 20231117, 1500000>>
    /\ \E i \in 1..appended :
           IntegerCells(tick_builder, i) =
               <<34200001, 65535, 255, 255, 65535, 255, 255, 20231117, 0, 0>>

====
